---- MODULE Spec2Model ----
(***************************************************************************)
(* A model of src/OCR.ipynb: the batch text extraction                     *)
(* extract_text_from_images, the skew normalisation of preprocess_image    *)
(* and the sanitizer clean_text.                                           *)
(*                                                                         *)
(* A Python str is a sequence of Unicode code points (97 is "a", 32 the    *)
(* space, 10 the newline, 233 "e" with an acute accent), so that the       *)
(* regular expressions, the suffix test and the sort of the code act on    *)
(* characters as they do in Python.                                        *)
(***************************************************************************)
EXTENDS Integers, Sequences, FiniteSets, TLC

VARIABLES
    pc,             \* where the run (or the function under check) stands
    exc,            \* the exception propagating out of the run, "none" if none
    listing,        \* os.listdir(input_folder): the directory's names, in the order the OS gives
    reader,         \* the texts the recognizer may return for an image (lists of blocks)
    disk,           \* output_file on disk
    opens,          \* how often output_file was opened for writing
    writes,         \* how often json.dump wrote into it
    printed,        \* whether the completion message was printed
    image_files,    \* the local image_files
    data,           \* data["input"]
    idx,            \* position of the for loop in image_files (0 before the first image)
    processed_img,  \* the preprocessed image of the current file (named by its file)
    angle_i,        \* how many of the angles [0, 90, 180, 270] were tried for the current image
    best_result,    \* the local best_result
    cands,          \* the recognizer's four outputs, for the voting loop taken alone
    text,           \* clean_text's argument
    cleaned,        \* clean_text(text)
    cleaned2,       \* clean_text(clean_text(text))
    raw_angle,      \* cv2.minAreaRect(coords)[-1], in 1/AngleScale degrees
    angle,          \* the local angle of preprocess_image after the branch
    reader_builds,  \* how often easyocr.Reader was constructed
    log             \* the calls made for the images, in the order they were made

vars == <<pc, exc, listing, reader, disk, opens, writes, printed, image_files, data,
          idx, processed_img, angle_i, best_result, cands, text, cleaned, cleaned2,
          raw_angle, angle, reader_builds, log>>

runVars == <<exc, listing, reader, disk, opens, writes, printed, image_files, data,
             idx, processed_img, reader_builds, log>>
voteVars == <<angle_i, best_result, cands>>
cleanVars == <<text, cleaned, cleaned2>>
angleVars == <<raw_angle, angle>>

(***************************************************************************)
(* Bounds of the model.                                                    *)
(***************************************************************************)
\* longest generated argument of clean_text
MaxLen == 4
\* directories hold up to SliceStart + MaxSelected images (0..MaxSelected get selected)
MaxSelected == 2
\* the largest directory holds SliceEnd + MaxBeyond images
MaxBeyond == 1
\* raw angles range over -MaxRawDeg .. MaxRawDeg degrees
MaxRawDeg == 90
\* raw angles are multiples of 1/AngleScale degree
AngleScale == 4

(***************************************************************************)
(* Strings.                                                                *)
(***************************************************************************)
Max(a, b) == IF a >= b THEN a ELSE b
Min(a, b) == IF a <= b THEN a ELSE b

\* s.endswith(suffix)
EndsWith(s, suffix) ==
    /\ Len(s) >= Len(suffix)
    /\ SubSeq(s, Len(s) - Len(suffix) + 1, Len(s)) = suffix

\* str.__lt__: code points compared from the left, a proper prefix is smaller
RECURSIVE StrLess(_, _)
StrLess(a, b) ==
    IF b = <<>> THEN FALSE
    ELSE IF a = <<>> THEN TRUE
    ELSE IF Head(a) # Head(b) THEN Head(a) < Head(b)
    ELSE StrLess(Tail(a), Tail(b))

\* sep.join(parts)
RECURSIVE Join(_, _)
Join(sep, parts) ==
    IF parts = <<>> THEN <<>>
    ELSE IF Len(parts) = 1 THEN parts[1]
    ELSE parts[1] \o sep \o Join(sep, Tail(parts))

\* str(n) for n >= 0
RECURSIVE Decimal(_)
Decimal(n) ==
    IF n < 10 THEN <<48 + n>> ELSE Append(Decimal(n \div 10), 48 + (n % 10))

\* Unicode whitespace: what \s of re matches in a str pattern and what str.strip() strips
IsSpace(c) ==
    \/ c \in 9..13
    \/ c \in 28..32
    \/ c \in {133, 160, 5760, 8232, 8233, 8239, 8287, 12288}
    \/ c \in 8192..8202

(***************************************************************************)
(* clean_text                                                              *)
(***************************************************************************)
\* the class [a-zA-Z0-9.,:/\n\s]
InKeptClass(c) ==
    \/ c \in 97..122
    \/ c \in 65..90
    \/ c \in 48..57
    \/ c \in {46, 44, 58, 47}
    \/ c = 10
    \/ IsSpace(c)

\* re.sub(r'[^a-zA-Z0-9.,:/\n\s]', '', text)
RemoveDisallowed(s) == SelectSeq(s, InKeptClass)

\* s without its leading whitespace
RECURSIVE LStrip(_)
LStrip(s) ==
    IF s # <<>> /\ IsSpace(Head(s)) THEN LStrip(Tail(s)) ELSE s

\* s without its trailing whitespace
RECURSIVE RStrip(_)
RStrip(s) ==
    IF s # <<>> /\ IsSpace(s[Len(s)]) THEN RStrip(SubSeq(s, 1, Len(s) - 1)) ELSE s

\* re.sub(r'\s+', ' ', text): each maximal run of whitespace becomes one space
RECURSIVE CollapseWhitespace(_)
CollapseWhitespace(s) ==
    IF s = <<>> THEN <<>>
    ELSE IF IsSpace(Head(s)) THEN <<32>> \o CollapseWhitespace(LStrip(s))
    ELSE <<Head(s)>> \o CollapseWhitespace(Tail(s))

\* text.strip()
Strip(s) == RStrip(LStrip(s))

\* a slip: the text is stripped first, before the characters are removed
clean_text_strip_first(s) == CollapseWhitespace(RemoveDisallowed(Strip(s)))

\* a slip: the result is not stripped
clean_text_no_strip(s) == CollapseWhitespace(RemoveDisallowed(s))

clean_text(s) == Strip(CollapseWhitespace(RemoveDisallowed(s)))

(***************************************************************************)
(* The arguments clean_text is checked on: every string of up to MaxLen    *)
(* characters over CleanAlphabet, and the two examples of the              *)
(* documentation.                                                          *)
(***************************************************************************)
\* a 1 , ! space newline e-acute no-break-space tab
CleanAlphabet == {97, 49, 44, 33, 32, 10, 233, 160, 9}

StringsUpTo(n) == UNION {[1..k -> CleanAlphabet] : k \in 0..n}

\* "a   b\n\n c"
ExampleSpaces == <<97, 32, 32, 32, 98, 10, 10, 32, 99>>
\* "a b c"
ExampleSpacesCleaned == <<97, 32, 98, 32, 99>>
\* "Hello, World!\n123" with an acute e and an o with diaeresis
ExampleAccents == <<72, 233, 108, 108, 111, 44, 32, 87, 246, 114, 108, 100, 33, 10, 49, 50, 51>>
\* "Hllo, Wrld 123"
ExampleAccentsCleaned == <<72, 108, 108, 111, 44, 32, 87, 114, 108, 100, 32, 49, 50, 51>>

CleanInputs == StringsUpTo(MaxLen) \cup {ExampleSpaces, ExampleAccents}

\* values of the variables a specification does not use
IdleRun ==
    /\ exc = "none" /\ listing = <<>> /\ reader = {}
    /\ disk = [kind |-> "absent", input |-> <<>>]
    /\ opens = 0 /\ writes = 0 /\ printed = FALSE /\ image_files = <<>>
    /\ data = <<>> /\ idx = 0 /\ processed_img = <<>>
    /\ reader_builds = 0 /\ log = <<>>
IdleVote == angle_i = 0 /\ best_result = <<>> /\ cands = <<>>
IdleClean == text = <<>> /\ cleaned = <<>> /\ cleaned2 = <<>>
IdleAngle == raw_angle = 0 /\ angle = 0

InitClean ==
    /\ pc = "clean"
    /\ text \in CleanInputs
    /\ cleaned = <<>> /\ cleaned2 = <<>>
    /\ IdleRun /\ IdleVote /\ IdleAngle

\* cleaned = clean_text(text)
CleanOnce ==
    /\ pc = "clean"
    /\ cleaned' = clean_text(text)
    /\ pc' = "cleaned"
    /\ UNCHANGED <<text, cleaned2, runVars, voteVars, angleVars>>

\* cleaned2 = clean_text(cleaned)
CleanAgain ==
    /\ pc = "cleaned"
    /\ cleaned2' = clean_text(cleaned)
    /\ pc' = "recleaned"
    /\ UNCHANGED <<text, cleaned, runVars, voteVars, angleVars>>

NextClean == CleanOnce \/ CleanAgain

SpecClean == InitClean /\ [][NextClean]_vars

(***************************************************************************)
(* C8: clean_text is idempotent: cleaning the cleaned text changes         *)
(* nothing.                                                                *)
(***************************************************************************)
C8_Idempotent == pc = "recleaned" => cleaned2 = cleaned

\* an argument whose cleaning removed characters, collapsed a run and stripped, cleaned twice
C8_Witness ==
    /\ pc = "recleaned"
    /\ text = ExampleAccents
    /\ cleaned = ExampleAccentsCleaned
    /\ cleaned2 = cleaned

(***************************************************************************)
(* C9: clean_text(s) holds only ASCII letters, digits, . , : / and the     *)
(* space; it is the words of s without its disallowed characters (the      *)
(* maximal runs of non-whitespace), joined by single spaces, with no       *)
(* whitespace in front or at the end; and the documentation's two examples *)
(* give "a b c" and "Hllo, Wrld 123".                                      *)
(***************************************************************************)
C9_Output(c) ==
    c \in (97..122) \cup (65..90) \cup (48..57) \cup {46, 44, 58, 47, 32}

\* what the first substitution leaves: letters, digits, . , : / and all whitespace
C9_Filtered(s) ==
    SelectSeq(s, LAMBDA c : C9_Output(c) \/ IsSpace(c))

\* the maximal runs of non-whitespace of s, left to right
C9_Words(s) ==
    LET starts == {i \in 1..Len(s) : ~IsSpace(s[i]) /\ (i = 1 \/ IsSpace(s[i - 1]))}
        endOf(i) == CHOOSE j \in i..Len(s) :
                        /\ \A k \in i..j : ~IsSpace(s[k])
                        /\ (j = Len(s) \/ IsSpace(s[j + 1]))
        nth(n) == CHOOSE i \in starts : Cardinality({j \in starts : j < i}) = n - 1
    IN  [n \in 1..Cardinality(starts) |-> SubSeq(s, nth(n), endOf(nth(n)))]

C9_CleanOutput ==
    pc \in {"cleaned", "recleaned"} =>
        /\ \A i \in 1..Len(cleaned) : C9_Output(cleaned[i])
        /\ cleaned = Join(<<32>>, C9_Words(C9_Filtered(text)))
        /\ cleaned # <<>> => cleaned[1] # 32 /\ cleaned[Len(cleaned)] # 32
        /\ \A i \in 1..(Len(cleaned) - 1) : ~(cleaned[i] = 32 /\ cleaned[i + 1] = 32)
        /\ text = ExampleSpaces => cleaned = ExampleSpacesCleaned
        /\ text = ExampleAccents => cleaned = ExampleAccentsCleaned

\* the whitespace example: runs of spaces and newlines became single spaces
C9_Witness ==
    /\ pc = "cleaned"
    /\ text = ExampleSpaces
    /\ cleaned = ExampleSpacesCleaned

(***************************************************************************)
(* preprocess_image: the normalisation of the skew angle.  Angles are      *)
(* counted in units of 1/AngleScale degree, so that angles between two     *)
(* whole degrees are among the arguments.                                  *)
(***************************************************************************)
\* the branch boundary, in degrees
SkewBoundary == -45
\* the quarter turn added in the first branch, in degrees
QuarterTurn == 90

Degrees(d) == d * AngleScale

\* a slip: the boundary itself takes the first branch
CorrectedAngle_inclusive(a) ==
    IF a <= Degrees(SkewBoundary) THEN -(Degrees(QuarterTurn) + a) ELSE -a

\* if angle < -45: angle = -(90 + angle)  else: angle = -angle
CorrectedAngle(a) ==
    IF a < Degrees(SkewBoundary) THEN -(Degrees(QuarterTurn) + a) ELSE -a

RawAngles == Degrees(-MaxRawDeg)..Degrees(MaxRawDeg)

InitAngle ==
    /\ pc = "thresh"
    /\ raw_angle = 0 /\ angle = 0
    /\ IdleRun /\ IdleVote /\ IdleClean

\* angle = cv2.minAreaRect(coords)[-1]
MinAreaRect ==
    /\ pc = "thresh"
    /\ \E a \in RawAngles : raw_angle' = a /\ angle' = a
    /\ pc' = "measured"
    /\ UNCHANGED <<runVars, voteVars, cleanVars>>

\* the if / else on angle
NormalizeAngle ==
    /\ pc = "measured"
    /\ angle' = CorrectedAngle(angle)
    /\ pc' = "normalized"
    /\ UNCHANGED <<raw_angle, runVars, voteVars, cleanVars>>

NextAngle == MinAreaRect \/ NormalizeAngle

SpecAngle == InitAngle /\ [][NextAngle]_vars

(***************************************************************************)
(* C10: the correction of a raw angle a is -(90 + a) when a < -45 and -a   *)
(* otherwise, the boundary -45 itself taking the second branch: -46 gives  *)
(* -44, -44 gives 44 and -45 gives 45.                                     *)
(***************************************************************************)
C10_Correction ==
    pc = "normalized" =>
        /\ raw_angle < -45 * AngleScale => angle = -((90 * AngleScale) + raw_angle)
        /\ raw_angle >= -45 * AngleScale => angle = -raw_angle
        /\ raw_angle = -46 * AngleScale => angle = -44 * AngleScale
        /\ raw_angle = -44 * AngleScale => angle = 44 * AngleScale
        /\ raw_angle = -45 * AngleScale => angle = 45 * AngleScale

\* the boundary itself went through the branch and came out as 45
C10_Witness ==
    /\ pc = "normalized"
    /\ raw_angle = -45 * AngleScale
    /\ angle = 45 * AngleScale

(***************************************************************************)
(* extract_text_from_images: the voting over the four rotations, taken     *)
(* alone on every choice of four recognizer outputs.                       *)
(***************************************************************************)
\* for angle in [0, 90, 180, 270]
Angles == <<0, 90, 180, 270>>

\* extracted_text = ' '.join(results)
ExtractedText(results) == Join(<<32>>, results)

\* a slip: a candidate of equal length replaces the kept one
KeepLonger_or_equal(best, extracted) ==
    IF Len(extracted) >= Len(best) THEN extracted ELSE best

\* if len(extracted_text) > len(best_result): best_result = extracted_text
KeepLonger(best, extracted) ==
    IF Len(extracted) > Len(best) THEN extracted ELSE best

\* recognizer outputs (lists of text blocks): nothing, "abc", "abcde", "abcdefgh",
\* "ABCDEFGH", and the two blocks "Ab" and "1/2"
VoteResults ==
    { <<>>,
      << <<97, 98, 99>> >>,
      << <<97, 98, 99, 100, 101>> >>,
      << <<97, 98, 99, 100, 101, 102, 103, 104>> >>,
      << <<65, 66, 67, 68, 69, 70, 71, 72>> >>,
      << <<65, 98>>, <<49, 47, 50>> >> }

InitVote ==
    /\ pc = "vote"
    /\ cands \in [1..Len(Angles) -> VoteResults]
    /\ angle_i = 0
    /\ best_result = <<>>
    /\ IdleRun /\ IdleClean /\ IdleAngle

\* one pass of the loop over the angles
VoteAngle ==
    /\ pc = "vote"
    /\ angle_i < Len(Angles)
    /\ best_result' = KeepLonger(best_result, ExtractedText(cands[angle_i + 1]))
    /\ angle_i' = angle_i + 1
    /\ pc' = IF angle_i' = Len(Angles) THEN "voted" ELSE "vote"
    /\ UNCHANGED <<cands, runVars, cleanVars, angleVars>>

NextVote == VoteAngle

SpecVote == InitVote /\ [][NextVote]_vars

(***************************************************************************)
(* C1: after the angles 0, 90, 180, 270 were scanned in that order, the    *)
(* kept text is the first candidate whose length is the maximum of the     *)
(* candidates' lengths (and so it is after each angle, among the           *)
(* candidates scanned so far): equal lengths keep the lower angle.         *)
(***************************************************************************)
C1_Candidate(i) == Join(<<32>>, cands[i])

C1_FirstLongest(n) ==
    CHOOSE i \in 1..n :
        /\ \A j \in 1..n : Len(C1_Candidate(j)) <= Len(C1_Candidate(i))
        /\ \A j \in 1..(i - 1) : Len(C1_Candidate(j)) < Len(C1_Candidate(i))

C1_FirstLongestKept ==
    (pc \in {"vote", "voted"} /\ angle_i >= 1) =>
        /\ best_result = C1_Candidate(C1_FirstLongest(angle_i))
        /\ pc = "voted" => angle_i = 4

\* lengths [5, 8, 8, 3] with two different texts of length 8: the one at 90 degrees is kept
C1_Witness ==
    /\ pc = "voted"
    /\ <<Len(C1_Candidate(1)), Len(C1_Candidate(2)), Len(C1_Candidate(3)), Len(C1_Candidate(4))>>
           = <<5, 8, 8, 3>>
    /\ C1_Candidate(2) # C1_Candidate(3)
    /\ best_result = C1_Candidate(2)

(***************************************************************************)
(* extract_text_from_images: the batch run.                                *)
(***************************************************************************)
\* image_files[200:400]: the first index of the slice
SliceStart == 200
\* image_files[200:400]: the index the slice stops before
SliceEnd == 400

\* ('.png', '.jpg', '.jpeg')
ImageSuffixes == { <<46, 112, 110, 103>>, <<46, 106, 112, 103>>, <<46, 106, 112, 101, 103>> }

\* a slip: the suffix is matched without its dot
IsImageName_no_dot(f) ==
    \E suffix \in ImageSuffixes : EndsWith(f, Tail(suffix))

\* f.endswith(('.png', '.jpg', '.jpeg'))
IsImageName(f) ==
    \E suffix \in ImageSuffixes : EndsWith(f, suffix)

\* the merge of two sorted lists, an element of a before its equals in b: the middle
\* element of a goes after the elements of b that are smaller, and so for both halves
RECURSIVE Merge(_, _)
Merge(a, b) ==
    IF a = <<>> THEN b
    ELSE IF b = <<>> THEN a
    ELSE LET half == (Len(a) + 1) \div 2
             smaller == Cardinality({j \in 1..Len(b) : StrLess(b[j], a[half])})
         IN  Merge(SubSeq(a, 1, half - 1), SubSeq(b, 1, smaller))
                 \o <<a[half]>>
                 \o Merge(SubSeq(a, half + 1, Len(a)), SubSeq(b, smaller + 1, Len(b)))

\* a slip: the list is left in the order of os.listdir
SortList_unsorted(s) == s

\* list.sort(): the names in ascending order of str comparison
RECURSIVE SortList(_)
SortList(s) ==
    IF Len(s) <= 1 THEN s
    ELSE LET half == Len(s) \div 2
         IN  Merge(SortList(SubSeq(s, 1, half)), SortList(SubSeq(s, half + 1, Len(s))))

\* s[from:to] for 0 <= from <= to
Slice(s, from, to) == SubSeq(s, Min(from, Len(s)) + 1, Min(to, Len(s)))

\* the entry appended for a file
Entry(filename, cleaned_text) == [image |-> filename, text_extracted |-> cleaned_text]

\* output_file on disk: absent, left by an earlier run ("old"), opened and truncated
\* ("empty"), cut short by a failed write ("partial"), or the JSON object {"input": [...]}
File(kind, input) == [kind |-> kind, input |-> input]

(***************************************************************************)
(* The directories the run is checked on.  Image names are page_<N> with   *)
(* one of the three suffixes (pdf_to_images names its pages so), which     *)
(* str comparison does not order by N; the directory also holds names that *)
(* are no images, and os.listdir gives the names in no particular order.   *)
(***************************************************************************)
\* "page_"
PagePrefix == <<112, 97, 103, 101, 95>>

ImageSuffix(n) ==
    IF n % 7 = 0 THEN <<46, 106, 112, 101, 103>>
    ELSE IF n % 5 = 0 THEN <<46, 112, 110, 103>>
    ELSE <<46, 106, 112, 103>>

ImageName(n) == PagePrefix \o Decimal(n) \o ImageSuffix(n)

\* "notes.txt", "scan.JPG", "jpg", "page_1.jpg.bak"
OtherNames ==
    << <<110, 111, 116, 101, 115, 46, 116, 120, 116>>,
       <<115, 99, 97, 110, 46, 74, 80, 71>>,
       <<106, 112, 103>>,
       PagePrefix \o <<49, 46, 106, 112, 103, 46, 98, 97, 107>> >>

\* n images, listed from page_<n> down to page_1, among the other names
Directory(n) ==
    SubSeq(OtherNames, 1, 2) \o [i \in 1..n |-> ImageName(n + 1 - i)] \o SubSeq(OtherNames, 3, 4)

\* ["b.jpg", "a.jpg", "c.jpg"]
ExampleListing ==
    << <<98, 46, 106, 112, 103>>, <<97, 46, 106, 112, 103>>, <<99, 46, 106, 112, 103>> >>

Listings ==
    {ExampleListing}
        \cup {Directory(SliceStart + k) : k \in 0..MaxSelected}
        \cup {Directory(SliceEnd + MaxBeyond)}

\* what reader.readtext may return in a short run: nothing, the block "Ab, 1" or the
\* two blocks "x!" and "e-acute:"
RunResults ==
    { <<>>,
      << <<65, 98, 44, 32, 49>> >>,
      << <<120, 33>>, <<233, 58>> >> }

\* the long run is made against a recognizer that gives one answer
Readers(dir) ==
    IF Len(dir) > SliceStart + MaxSelected + Len(OtherNames)
    THEN { { << <<65, 98, 44, 32, 49>> >> } }
    ELSE { RunResults }

\* a call made for an image; angle is -1 for a call that takes none
Event(op, image, rotation) == [op |-> op, image |-> image, angle |-> rotation]

Init ==
    /\ pc = "setup"
    /\ exc = "none"
    /\ listing \in Listings
    /\ reader = {}
    /\ reader_builds = 0 /\ log = <<>>
    /\ disk \in {File("absent", <<>>), File("old", <<>>)}
    /\ opens = 0 /\ writes = 0 /\ printed = FALSE
    /\ image_files = <<>> /\ data = <<>> /\ idx = 0 /\ processed_img = <<>>
    /\ IdleVote /\ IdleClean /\ IdleAngle

Running == exc = "none"

\* reader = easyocr.Reader(['en'], gpu=(device == 'cuda')), in the cell run before the call
BuildReader ==
    /\ Running /\ pc = "setup"
    /\ reader' \in Readers(listing)
    /\ reader_builds' = reader_builds + 1
    /\ pc' = "start"
    /\ UNCHANGED <<exc, listing, disk, opens, writes, printed, image_files, data,
                   idx, processed_img, voteVars, cleanVars, angleVars, log>>

\* the file list is built, sorted and sliced, and data is created
ListSortSlice ==
    /\ Running /\ pc = "start"
    /\ image_files' = Slice(SortList(SelectSeq(listing, IsImageName)), SliceStart, SliceEnd)
    /\ data' = <<>>
    /\ pc' = "loop"
    /\ UNCHANGED <<exc, listing, reader, disk, opens, writes, printed, idx, processed_img,
                   voteVars, cleanVars, angleVars, reader_builds, log>>

\* for filename in image_files: the next file, or the end of the loop
LoopNext ==
    /\ Running /\ pc = "loop"
    /\ IF idx < Len(image_files)
       THEN idx' = idx + 1 /\ pc' = "preprocess"
       ELSE idx' = idx /\ pc' = "save"
    /\ UNCHANGED <<exc, listing, reader, disk, opens, writes, printed, image_files, data,
                   processed_img, voteVars, cleanVars, angleVars, reader_builds, log>>

\* processed_img = preprocess_image(img_path); best_result = ""
Preprocess ==
    /\ Running /\ pc = "preprocess"
    /\ processed_img' = image_files[idx]
    /\ best_result' = <<>>
    /\ angle_i' = 0
    /\ pc' = "readtext"
    /\ log' = log \o <<Event("preprocess_image", image_files[idx], -1)>>
    /\ UNCHANGED <<exc, listing, reader, disk, opens, writes, printed, image_files, data,
                   idx, cands, cleanVars, angleVars, reader_builds>>

\* the file is no image cv2.imread can decode: it returns None and cv2.cvtColor raises
PreprocessFails ==
    /\ Running /\ pc = "preprocess"
    /\ exc' = "cv2.error"
    /\ log' = log \o <<Event("preprocess_image", image_files[idx], -1)>>
    /\ UNCHANGED <<pc, listing, reader, disk, opens, writes, printed, image_files, data,
                   idx, processed_img, voteVars, cleanVars, angleVars, reader_builds>>

\* a slip: the angles are tried from 270 down to 0
ReadText_descending ==
    /\ Running /\ pc = "readtext"
    /\ angle_i < Len(Angles)
    /\ \E results \in reader :
           best_result' = KeepLonger(best_result, ExtractedText(results))
    /\ angle_i' = angle_i + 1
    /\ pc' = IF angle_i' = Len(Angles) THEN "clean" ELSE "readtext"
    /\ log' = log \o <<Event("readtext", processed_img, Angles[Len(Angles) - angle_i])>>
    /\ UNCHANGED <<exc, listing, reader, disk, opens, writes, printed, image_files, data,
                   idx, processed_img, cands, cleanVars, angleVars, reader_builds>>

\* one pass of the loop over the angles: rotate, read, join, compare
ReadText ==
    /\ Running /\ pc = "readtext"
    /\ angle_i < Len(Angles)
    /\ \E results \in reader :
           best_result' = KeepLonger(best_result, ExtractedText(results))
    /\ angle_i' = angle_i + 1
    /\ pc' = IF angle_i' = Len(Angles) THEN "clean" ELSE "readtext"
    /\ log' = log \o <<Event("readtext", processed_img, Angles[angle_i + 1])>>
    /\ UNCHANGED <<exc, listing, reader, disk, opens, writes, printed, image_files, data,
                   idx, processed_img, cands, cleanVars, angleVars, reader_builds>>

\* reader.readtext raises
ReadTextFails ==
    /\ Running /\ pc = "readtext"
    /\ angle_i < Len(Angles)
    /\ exc' = "RecognitionError"
    /\ log' = log \o <<Event("readtext", processed_img, Angles[angle_i + 1])>>
    /\ UNCHANGED <<pc, listing, reader, disk, opens, writes, printed, image_files, data,
                   idx, processed_img, voteVars, cleanVars, angleVars, reader_builds>>

\* a slip: the results are also written out after every image
AppendResult_flushing ==
    /\ Running /\ pc = "clean"
    /\ data' = Append(data, Entry(image_files[idx], clean_text(best_result)))
    /\ disk' = File("json", data')
    /\ opens' = opens + 1
    /\ pc' = "loop"
    /\ log' = log \o <<Event("clean_text", image_files[idx], -1), Event("append", image_files[idx], -1)>>
    /\ UNCHANGED <<exc, listing, reader, writes, printed, image_files,
                   idx, processed_img, voteVars, cleanVars, angleVars, reader_builds>>

\* a slip: the entry replaces the list instead of being appended to it
AppendResult_replacing ==
    /\ Running /\ pc = "clean"
    /\ data' = <<Entry(image_files[idx], clean_text(best_result))>>
    /\ pc' = "loop"
    /\ log' = log \o <<Event("clean_text", image_files[idx], -1), Event("append", image_files[idx], -1)>>
    /\ UNCHANGED <<exc, listing, reader, disk, opens, writes, printed, image_files,
                   idx, processed_img, voteVars, cleanVars, angleVars, reader_builds>>

\* cleaned_text = clean_text(best_result); data["input"].append({...})
AppendResult ==
    /\ Running /\ pc = "clean"
    /\ data' = Append(data, Entry(image_files[idx], clean_text(best_result)))
    /\ pc' = "loop"
    /\ log' = log \o <<Event("clean_text", image_files[idx], -1), Event("append", image_files[idx], -1)>>
    /\ UNCHANGED <<exc, listing, reader, disk, opens, writes, printed, image_files,
                   idx, processed_img, voteVars, cleanVars, angleVars, reader_builds>>

\* with open(output_file, 'w') as f: the file is created or truncated
OpenOutput ==
    /\ Running /\ pc = "save"
    /\ disk' = File("empty", <<>>)
    /\ opens' = opens + 1
    /\ pc' = "dump"
    /\ UNCHANGED <<exc, listing, reader, writes, printed, image_files, data,
                   idx, processed_img, voteVars, cleanVars, angleVars, reader_builds, log>>

\* open raises (no permission, no such directory): the file is left as it was
OpenOutputFails ==
    /\ Running /\ pc = "save"
    /\ exc' = "OSError"
    /\ UNCHANGED <<pc, listing, reader, disk, opens, writes, printed, image_files, data,
                   idx, processed_img, voteVars, cleanVars, angleVars, reader_builds, log>>

\* json.dump(data, f, indent=4), and the file is closed
DumpJson ==
    /\ Running /\ pc = "dump"
    /\ disk' = File("json", data)
    /\ writes' = writes + 1
    /\ pc' = "print"
    /\ UNCHANGED <<exc, listing, reader, opens, printed, image_files, data,
                   idx, processed_img, voteVars, cleanVars, angleVars, reader_builds, log>>

\* a slip: a failed write is swallowed and the run goes on to its message
DumpJsonFails_swallowed ==
    /\ Running /\ pc = "dump"
    /\ disk' = File("partial", <<>>)
    /\ pc' = "print"
    /\ UNCHANGED <<exc, listing, reader, opens, writes, printed, image_files, data,
                   idx, processed_img, voteVars, cleanVars, angleVars, reader_builds, log>>

\* the write raises (disk full): part of the text is in the file, the exception leaves the run
DumpJsonFails ==
    /\ Running /\ pc = "dump"
    /\ disk' = File("partial", <<>>)
    /\ exc' = "OSError"
    /\ UNCHANGED <<pc, listing, reader, opens, writes, printed, image_files, data,
                   idx, processed_img, voteVars, cleanVars, angleVars, reader_builds, log>>

\* print(f"Text extraction complete! Results saved in {output_file}")
PrintComplete ==
    /\ Running /\ pc = "print"
    /\ printed' = TRUE
    /\ pc' = "done"
    /\ UNCHANGED <<exc, listing, reader, disk, opens, writes, image_files, data,
                   idx, processed_img, voteVars, cleanVars, angleVars, reader_builds, log>>

\* the process is interrupted where it stands
Interrupt ==
    /\ Running /\ pc # "done"
    /\ exc' = "KeyboardInterrupt"
    /\ UNCHANGED <<pc, listing, reader, disk, opens, writes, printed, image_files, data,
                   idx, processed_img, voteVars, cleanVars, angleVars, reader_builds, log>>

Next ==
    \/ BuildReader
    \/ ListSortSlice
    \/ LoopNext
    \/ Preprocess
    \/ PreprocessFails
    \/ ReadText
    \/ ReadTextFails
    \/ AppendResult
    \/ OpenOutput
    \/ OpenOutputFails
    \/ DumpJson
    \/ DumpJsonFails
    \/ PrintComplete
    \/ Interrupt

Spec == Init /\ [][Next]_vars

\* the file names of the entries of a result list, in order
ImagesOf(entries) == [i \in 1..Len(entries) |-> entries[i].image]

\* the images whose processing is complete
C4_ProcessedSoFar == IF pc \in {"preprocess", "readtext", "clean"} THEN idx - 1 ELSE idx

(***************************************************************************)
(* C2 (as claimed): a failure of the recognizer at an angle counts as an   *)
(* empty candidate and never leaves the batch run as a fatal error.  The   *)
(* code calls reader.readtext outside any try, so the exception ends the   *)
(* run.                                                                    *)
(***************************************************************************)
C2_RecognizerFailureRecovered == exc # "RecognitionError"

(***************************************************************************)
(* C3 (as claimed): a file that cannot be decoded is skipped and never     *)
(* aborts the run.  The code calls preprocess_image outside any try, so    *)
(* the cv2.error ends the run, with the remaining files not processed and  *)
(* nothing written.                                                        *)
(***************************************************************************)
C3_BadFileSkipped == exc # "cv2.error"

(***************************************************************************)
(* C4: at every point of a run the result list is a prefix of the selected *)
(* file list: one entry per image processed so far, the i-th entry for the *)
(* i-th selected file, no file twice; it only grows by appending; and the  *)
(* array written to the output file is that list.                          *)
(***************************************************************************)
C4_Prefix ==
    /\ Len(data) <= Len(image_files)
    /\ ImagesOf(data) = SubSeq(image_files, 1, Len(data))
    /\ Len(data) = C4_ProcessedSoFar
    /\ Cardinality({data[i].image : i \in 1..Len(data)}) = Len(data)
    /\ disk.kind = "json" => disk.input = data /\ ImagesOf(disk.input) = image_files

C4_Grows ==
    \/ data' = data
    \/ Len(data') = Len(data) + 1 /\ SubSeq(data', 1, Len(data)) = data

C4_ResultIsPrefix == [](C4_Prefix) /\ [][C4_Grows]_vars

\* the second of two selected images is being read: one entry, for the first selected file
C4_Witness ==
    /\ pc = "readtext" /\ idx = 2 /\ angle_i = 2
    /\ Len(image_files) = 2
    /\ ImagesOf(data) = <<image_files[1]>>

(***************************************************************************)
(* C5 (as amended): the run selects the entries at the indices [200, 400)  *)
(* of the list, sorted by str comparison, of the names ending in .png,     *)
(* .jpg or .jpeg, the two bounds being fixed in the code; the file in      *)
(* process at position i is the name with 200 + i - 1 smaller matching     *)
(* names, and the result a completed run writes holds exactly the selected *)
(* names in that order.  For ["b.jpg", "a.jpg", "c.jpg"] it is empty.      *)
(***************************************************************************)
C5_Matching ==
    {listing[i] : i \in {j \in 1..Len(listing) :
        \/ EndsWith(listing[j], <<46, 112, 110, 103>>)
        \/ EndsWith(listing[j], <<46, 106, 112, 103>>)
        \/ EndsWith(listing[j], <<46, 106, 112, 101, 103>>)}}

\* how many matching names come before f
C5_Rank(f) == Cardinality({g \in C5_Matching : StrLess(g, f)})

C5_Count == Max(0, Min(400, Cardinality(C5_Matching)) - 200)

C5_FixedSlice ==
    pc \notin {"setup", "start"} =>
        /\ Len(image_files) = C5_Count
        /\ idx \in 1..Len(image_files) =>
               /\ image_files[idx] \in C5_Matching
               /\ C5_Rank(image_files[idx]) = 200 + idx - 1
        /\ pc = "done" =>
               /\ Len(data) = C5_Count
               /\ \A i \in 1..Len(data) :
                      data[i].image \in C5_Matching /\ C5_Rank(data[i].image) = 200 + i - 1
               /\ disk = File("json", data)
        /\ (pc = "done" /\ listing = ExampleListing) => data = <<>>

\* a directory of more than 400 images, done: 200 entries, from the 201st name on
C5_Witness ==
    /\ pc = "done"
    /\ Cardinality(C5_Matching) > 400
    /\ Len(data) = 200
    /\ C5_Rank(data[1].image) = 200

(***************************************************************************)
(* C5 (as claimed): the range is a parameter of the run, and for the files *)
(* ["b.jpg", "a.jpg", "c.jpg"] and the range [0, 2) the result holds a.jpg *)
(* then b.jpg.  The run takes no range: on that directory it ends with an  *)
(* empty result.                                                           *)
(***************************************************************************)
C5_RangeExample ==
    (pc = "done" /\ listing = ExampleListing) =>
        ImagesOf(data) = << <<97, 46, 106, 112, 103>>, <<98, 46, 106, 112, 103>> >>

(***************************************************************************)
(* C6: the output file is opened and written at most once, and exactly     *)
(* once in a run that completes; it is opened only after every selected    *)
(* image was processed and appended; until then, whatever ends the run     *)
(* (an exception, an interruption), the file is as it was before the run:  *)
(* absent, or the file an earlier run left.                                *)
(***************************************************************************)
C6_AllOrNothing ==
    /\ opens <= 1 /\ writes <= opens
    /\ opens = 0 => disk.kind \in {"absent", "old"}
    /\ opens = 1 =>
           /\ pc \in {"dump", "print", "done"}
           /\ Len(data) = Len(image_files)
           /\ idx = Len(image_files)
    /\ disk.kind \notin {"absent", "old"} => opens = 1
    /\ pc = "done" => opens = 1 /\ writes = 1 /\ disk = File("json", data)

\* interrupted while the second image is read, one result in memory: the earlier run's
\* file is still there, unopened
C6_Witness ==
    /\ exc = "KeyboardInterrupt"
    /\ pc = "readtext" /\ idx = 2
    /\ Len(data) = 1
    /\ opens = 0
    /\ disk = File("old", <<>>)

(***************************************************************************)
(* C7: the completion message is printed only after the results were       *)
(* written to the output file; when opening or writing the file fails, the *)
(* exception leaves the run and no message is printed.                     *)
(***************************************************************************)
C7_MessageAfterWrite ==
    /\ printed => writes = 1 /\ disk = File("json", data) /\ exc = "none" /\ pc = "done"
    /\ pc \in {"print", "done"} => writes = 1 /\ disk = File("json", data)
    /\ exc = "OSError" => ~printed /\ pc \in {"save", "dump"}

\* the write failed after two images: the exception is out, nothing was printed
C7_Witness ==
    /\ exc = "OSError"
    /\ pc = "dump"
    /\ Len(data) = 2
    /\ disk.kind = "partial"
    /\ ~printed

(***************************************************************************)
(* C11: the recognizer is constructed once, before any image is            *)
(* processed, and the images are processed one after the other: the calls  *)
(* made are, for the first selected file, then the second, and so on,      *)
(* preprocess_image, readtext at 0, 90, 180 and 270 in that order,         *)
(* clean_text and the append, each image's seven calls made before the     *)
(* next image's preprocess_image.                                          *)
(***************************************************************************)
\* the k-th call of a sequential run
C11_Expected(k) ==
    LET file == image_files[((k - 1) \div 7) + 1]
        step == (k - 1) % 7
    IN  IF step = 0 THEN [op |-> "preprocess_image", image |-> file, angle |-> -1]
        ELSE IF step = 1 THEN [op |-> "readtext", image |-> file, angle |-> 0]
        ELSE IF step = 2 THEN [op |-> "readtext", image |-> file, angle |-> 90]
        ELSE IF step = 3 THEN [op |-> "readtext", image |-> file, angle |-> 180]
        ELSE IF step = 4 THEN [op |-> "readtext", image |-> file, angle |-> 270]
        ELSE IF step = 5 THEN [op |-> "clean_text", image |-> file, angle |-> -1]
        ELSE [op |-> "append", image |-> file, angle |-> -1]

C11_Sequential ==
    /\ reader_builds <= 1
    /\ (pc # "setup" \/ log # <<>>) => reader_builds = 1
    /\ Len(log) <= 7 * Len(image_files)
    /\ \A k \in 1..Len(log) : log[k] = C11_Expected(k)
    /\ Len(data) = Len(log) \div 7

\* the second image's preprocessing is the eighth call, after the first image's seven
C11_Witness ==
    /\ pc = "readtext" /\ idx = 2
    /\ Len(log) = 8
    /\ log[7] = [op |-> "append", image |-> image_files[1], angle |-> -1]
    /\ log[8] = [op |-> "preprocess_image", image |-> image_files[2], angle |-> -1]
    /\ reader_builds = 1

====
